---- MODULE Spec2Model ----
(***************************************************************************)
(* Model of the local-first WebDAV synchronisation of the Align planner:   *)
(* the zustand store (src/src/store/index.ts), the Dexie database layer    *)
(* (src/src/lib/database.ts) and the remote shard files it reads.          *)
(*                                                                         *)
(* Every async handler is cut at the awaits where another handler can run  *)
(* in between.  A task handler issues its write to the tasks table and     *)
(* awaits it; the table answers the writes in the order they were issued,  *)
(* and the answer and the continuation of the handler are one step.        *)
(***************************************************************************)
EXTENDS Integers, FiniteSets, Sequences, TLC

\* ---------------------------------------------------------------- bounds
MaxTask  == 2      \* task identifiers 1..MaxTask
MaxClock == 2      \* instants 1..MaxClock returned by new Date()
MaxDup   == 2      \* longest run of one month in the dirtyMonths array
MaxPending == 2    \* task handlers awaiting the tasks table together

TaskIds  == 1..MaxTask
Months   == {"2024-03", "2024-04"}
Statuses == {"not-started", "completed"}
Configs  == {"cfgA", "cfgB"}

NoMonth  == ""          \* '' / null month of a task that was not found
NoCfg    == "null"      \* webdavConfig: null
NoStatus == "-"         \* updates without a status field
NullTime == 0           \* lastSyncTime: null

\* ------------------------------------------------------------------ state
VARIABLES
  tasks,          \* AppState.tasks (in memory), a set of task records
  dirtyMonths,    \* AppState.dirtyMonths, month -> number of copies in the array
  webdavConfig,   \* AppState.webdavConfig
  lastSyncTime,   \* AppState.lastSyncTime (NullTime = null)
  isSyncing,      \* AppState.isSyncing
  templates,      \* AppState.templates (number of saved templates)
  dbTasks,        \* IndexedDB table tasks (primary key id)
  dbAnalytics,    \* IndexedDB table analytics (number of records)
  dbTemplates,    \* IndexedDB table templates (number of records)
  dbSync,         \* IndexedDB table webdavConfig, record 'default' or NoState
  remote,         \* remote files /align/data/tasks_<month>.json
  remoteConfig,   \* remote file /align/config.json
  dirs,           \* the remote directories that exist
  clock,          \* the wall clock
  push,           \* the syncToWebDAV call in flight
  pull,           \* the syncFromWebDAV call in flight
  cfgOp,          \* the setWebDAVConfig call in flight
  loadOp,         \* the loadInitialData call in flight
  writes,         \* the task handlers awaiting the tasks table, oldest first
  ev              \* the handler step that produced this state, and its outcome

vars == <<tasks, dirtyMonths, webdavConfig, lastSyncTime, isSyncing, templates,
          dbTasks, dbAnalytics, dbTemplates, dbSync, remote, remoteConfig,
          dirs, clock, push, pull, cfgOp, loadOp, writes, ev>>

\* ---------------------------------------------------------------- helpers
Task(i, m, k, s) == [id |-> i, month |-> m, kind |-> k, status |-> s]

\* format(new Date(t.startTime), 'yyyy-MM'): works on a Date and on an ISO string
MonthOf(t) == t.month

Ids(ts) == {t.id : t \in ts}

NoDirty == [m \in Months |-> 0]

\* db.getWebDAVState() of an empty table: undefined
NoState == [present |-> FALSE, cfg |-> NoCfg, lastSyncTime |-> NullTime,
            dirtyMonths |-> NoDirty]

NoFile == [exists |-> FALSE, ids |-> {}, lastmod |-> 0]

\* [...dirtyMonths, month]
Appended(d, m) == IF m = NoMonth THEN d ELSE [d EXCEPT ![m] = @ + 1]

\* Array.from(new Set(dirtyMonths))
Dedup(d) == [m \in Months |-> IF d[m] > 0 THEN 1 ELSE 0]

\* dirty.add(month) on the Set
SetAdd(d, m) == IF m = NoMonth THEN d ELSE [d EXCEPT ![m] = 1]

IsDirty(d, m) == d[m] > 0

Event(op, ok, toast, from, to) ==
  [op |-> op, ok |-> ok, toast |-> toast, from |-> from, to |-> to,
   caller |-> "returns"]

\* what a rejected IndexedDB request throws
StorageError == "DexieError"

\* the database layer's catch: throw new Error('...失败')
DbCaught(err) == "Error"

\* a store handler's catch that ends with `throw error`
Rethrown(err) == err

\* a store handler's catch that ends with toast.error: the promise resolves
Swallowed(err) == "returns"

\* the last step when a handler's await of the database layer rejects; caller
\* is what the handler's own caller receives
Failed(op, toast, from, to, err) ==
  [op |-> op, ok |-> FALSE, toast |-> toast, from |-> from, to |-> to,
   caller |-> err]

\* new Date(): time has passed since the last reading, or not
Now(t) == t >= clock /\ t <= clock + 1 /\ t <= MaxClock

IdlePush == [pc |-> "idle", cfg |-> NoCfg, snapDirty |-> NoDirty]
IdleCfg  == [pc |-> "idle", config |-> NoCfg, currentState |-> NoState]
IdleLoad == [pc |-> "idle", tasks |-> {}, templates |-> 0, webdavState |-> NoState]
\* what a download of a shard file can give: res.ok with data.tasks, a non-OK
\* response (null), a rejected fetch or res.json(), res.ok with no data
Answers == {"ok", "notOk", "throws", "noData"}

\* no download was asked for
NoAnswers == [m \in Months |-> "none"]

IdlePull == [pc |-> "idle", cfg |-> NoCfg, tasks |-> {}, lastSyncTime |-> NullTime,
             files |-> {}, answers |-> NoAnswers, toasts |-> 0]

\* updates that change neither the start time nor the status
NoUpdate == [startTime |-> NoMonth, status |-> NoStatus]

NoRemoteConfig == [exists |-> FALSE, hasTemplates |-> FALSE, templates |-> 0]

\* db.updateWebDAVState(state): update('default', state) or add({...state, id})
UpdateWebDAVState(cfg, t, d) ==
  [present |-> TRUE, cfg |-> cfg, lastSyncTime |-> t, dirtyMonths |-> d]

\* ------------------------------------------------------------ task writes
\* Partial<Task> as the callers build it: a new start time, or a new status
Updates == [startTime : Months, status : {NoStatus}]
           \cup [startTime : {NoMonth}, status : Statuses]

\* a handler at its await of the tasks table: the operation, the task ids, the
\* month it read from get() before the await, and its argument
Write(op, ids, old, u) == [op |-> op, ids |-> ids, old |-> old, u |-> u]

\* the handler has issued its database write and awaits it
Called == Event("call", TRUE, "none", NoMonth, NoMonth)

\* the tasks table serves its writes in the order they were issued
Awaits(op) == writes # <<>> /\ Head(writes).op = op

\* ids no store, local or remote, holds and no handler is adding: what
\* generateId() returns
FreshIds == TaskIds \ (Ids(tasks) \cup Ids(dbTasks)
                       \cup UNION {remote[m].ids : m \in Months}
                       \cup UNION {writes[k].ids : k \in 1..Len(writes)})

\* { ...task, ...updates }
Merge(t, u) ==
  [t EXCEPT !.month  = IF u.startTime # NoMonth THEN u.startTime ELSE @,
            !.kind   = IF u.startTime # NoMonth THEN "Date" ELSE @,
            !.status = IF u.status # NoStatus THEN u.status ELSE @]

\* Table.update(id, updates): changes the record when there is one
DbUpdate(db, i, u) == {IF t.id = i THEN Merge(t, u) ELSE t : t \in db}

\* state.tasks.map(task => task.id === id ? {...task, ...updates} : task)
MapUpdate(ts, i, u) == {IF t.id = i THEN Merge(t, u) ELSE t : t \in ts}

\* state.tasks.find(t => t.id === id), then its month ('' when not found)
FoundMonths(i) ==
  IF i \in Ids(tasks) THEN {MonthOf(t) : t \in {x \in tasks : x.id = i}}
  ELSE {NoMonth}

\* addTask: dirtyMonths after the task was stored
AddTaskDirty(d, m) == Appended(d, m)

\* updateTask: dirtyMonths from the old and the new month
UpdateTaskDirty(d, month, newMonth) == SetAdd(SetAdd(Dedup(d), month), newMonth)

\* deleteTask: dirtyMonths after the task was deleted
DeleteTaskDirty(d, month) == Appended(d, month)

\* moveTask: [...dirtyMonths, oldMonth, newMonth].filter(Boolean)
MoveTaskDirty(d, oldMonth, newMonth) == Appended(Appended(d, oldMonth), newMonth)

\* batchUpdateTaskStatus: the Set of dirtyMonths plus the months of the tasks
BatchDirty(d, ts, ids) ==
  [m \in Months |->
     IF d[m] > 0 \/ (\E t \in ts : t.id \in ids /\ MonthOf(t) = m) THEN 1 ELSE 0]

\* applyTemplate: set(state => ({ tasks: [...state.tasks, newTask] }))
ApplyTemplateDirty(d, m) == d

Fits(d) == \A m \in Months : d[m] <= MaxDup

\* what a task handler leaves alone
TaskFrame ==
  UNCHANGED <<webdavConfig, lastSyncTime, isSyncing, templates, dbAnalytics,
              dbTemplates, dbSync, remote, remoteConfig, dirs, clock,
              push, pull, cfgOp, loadOp>>

\* a task handler up to its await: nothing but the write it awaits changes
Issue(w) ==
  /\ Len(writes) < MaxPending
  /\ writes' = Append(writes, w)
  /\ ev' = Called
  /\ UNCHANGED <<tasks, dirtyMonths, dbTasks>>
  /\ TaskFrame

\* addTask up to await db.addTask(newTask)
AddTask(i, m) ==
  /\ i \in FreshIds
  /\ Issue(Write("addTask", {i}, NoMonth, [startTime |-> m, status |-> NoStatus]))

\* addTask from the answer of db.addTask to its end
AddTaskSettle ==
  /\ Awaits("addTask")
  /\ LET w == Head(writes)
         m == w.u.startTime
         new == {Task(i, m, "Date", "not-started") : i \in w.ids}
     IN
     /\ Fits(AddTaskDirty(dirtyMonths, m))
     /\ \/ /\ dbTasks' = dbTasks \cup new
           /\ tasks' = tasks \cup new
           /\ dirtyMonths' = AddTaskDirty(dirtyMonths, m)
           /\ ev' = Event("addTask", TRUE, "none", NoMonth, m)
        \/ /\ UNCHANGED <<dbTasks, tasks, dirtyMonths>>      \* db.addTask throws
           /\ ev' = Failed("addTask", "none", NoMonth, m,
                         Rethrown(DbCaught(StorageError)))
  /\ writes' = Tail(writes)
  /\ TaskFrame

\* updateTask up to await db.updateTask(id, updates)
UpdateTask(i, u) ==
  /\ i \in Ids(tasks)
  /\ Issue(Write("updateTask", {i}, NoMonth, u))

\* updateTask from the answer of db.updateTask to its end
UpdateTaskSettle ==
  /\ Awaits("updateTask")
  /\ LET w == Head(writes) IN
     \E i \in w.ids : \E month \in FoundMonths(i) :
       LET newMonth == IF w.u.startTime # NoMonth THEN w.u.startTime ELSE month IN
       \/ /\ dbTasks' = DbUpdate(dbTasks, i, w.u)
          /\ tasks' = MapUpdate(tasks, i, w.u)
          /\ dirtyMonths' = UpdateTaskDirty(dirtyMonths, month, newMonth)
          /\ ev' = Event("updateTask", TRUE, "none", month, newMonth)
       \/ /\ UNCHANGED <<dbTasks, tasks, dirtyMonths>>    \* db.updateTask throws
          /\ ev' = Failed("updateTask", "none", month, newMonth,
                         Rethrown(DbCaught(StorageError)))
  /\ writes' = Tail(writes)
  /\ TaskFrame

\* deleteTask up to await db.deleteTask(id): the month is read before the await
DeleteTask(i) ==
  /\ i \in Ids(tasks)
  /\ \E month \in FoundMonths(i) : Issue(Write("deleteTask", {i}, month, NoUpdate))

\* deleteTask from the answer of db.deleteTask to its end
DeleteTaskSettle ==
  /\ Awaits("deleteTask")
  /\ LET w == Head(writes) IN
     /\ Fits(DeleteTaskDirty(dirtyMonths, w.old))
     /\ \/ /\ dbTasks' = {t \in dbTasks : t.id \notin w.ids}
           /\ tasks' = {t \in tasks : t.id \notin w.ids}
           /\ dirtyMonths' = DeleteTaskDirty(dirtyMonths, w.old)
           /\ ev' = Event("deleteTask", TRUE, "none", w.old, NoMonth)
        \/ /\ UNCHANGED <<dbTasks, tasks, dirtyMonths>>      \* db.deleteTask throws
           /\ ev' = Failed("deleteTask", "none", w.old, NoMonth,
                         Rethrown(DbCaught(StorageError)))
  /\ writes' = Tail(writes)
  /\ TaskFrame

\* moveTask up to await db.updateTask(id, {startTime, endTime}): oldMonth is
\* read before the await
MoveTask(i, newMonth) ==
  /\ i \in Ids(tasks)
  /\ \E oldMonth \in FoundMonths(i) :
       Issue(Write("moveTask", {i}, oldMonth,
                   [startTime |-> newMonth, status |-> NoStatus]))

\* moveTask from the answer of db.updateTask to its end
MoveTaskSettle ==
  /\ Awaits("moveTask")
  /\ LET w == Head(writes)
         newMonth == w.u.startTime
     IN
     /\ Fits(MoveTaskDirty(dirtyMonths, w.old, newMonth))
     /\ \E i \in w.ids :
          \/ /\ dbTasks' = DbUpdate(dbTasks, i, w.u)
             /\ tasks' = MapUpdate(tasks, i, w.u)
             /\ dirtyMonths' = MoveTaskDirty(dirtyMonths, w.old, newMonth)
             /\ ev' = Event("moveTask", TRUE, "none", w.old, newMonth)
          \/ /\ UNCHANGED <<dbTasks, tasks, dirtyMonths>>    \* caught: toast.error
             /\ ev' = Failed("moveTask", "error", w.old, newMonth,
                         Swallowed(DbCaught(StorageError)))
  /\ writes' = Tail(writes)
  /\ TaskFrame

\* batchUpdateTaskStatus up to await db.batchUpdateTaskStatus(taskIds, status)
BatchUpdateTaskStatus(ids, s) ==
  /\ ids # {} /\ ids \subseteq Ids(tasks)
  /\ Issue(Write("batchUpdateTaskStatus", ids, NoMonth,
                 [startTime |-> NoMonth, status |-> s]))

\* batchUpdateTaskStatus from the answer of db.batchUpdateTaskStatus to its
\* end.  The database updates the ids one by one; when one update throws, the
\* ids before it (done) stay updated and the store is not touched
BatchUpdateTaskStatusSettle ==
  /\ Awaits("batchUpdateTaskStatus")
  /\ LET w == Head(writes) IN
     \/ /\ dbTasks' = {IF t.id \in w.ids THEN Merge(t, w.u) ELSE t : t \in dbTasks}
        /\ tasks' = {IF t.id \in w.ids THEN Merge(t, w.u) ELSE t : t \in tasks}
        /\ dirtyMonths' = BatchDirty(dirtyMonths, tasks, w.ids)
        /\ ev' = Event("batchUpdateTaskStatus", TRUE, "success", NoMonth, NoMonth)
     \/ /\ \E done \in SUBSET w.ids :
             /\ done # w.ids
             /\ dbTasks' = {IF t.id \in done THEN Merge(t, w.u) ELSE t : t \in dbTasks}
        /\ UNCHANGED <<tasks, dirtyMonths>>
        /\ ev' = Failed("batchUpdateTaskStatus", "error", NoMonth, NoMonth,
                         Swallowed(DbCaught(StorageError)))
  /\ writes' = Tail(writes)
  /\ TaskFrame

\* applyTemplate up to await db.addTask(newTask): a template of one task,
\* applied to a date in month m
ApplyTemplate(i, m) ==
  /\ templates > 0
  /\ i \in FreshIds
  /\ Issue(Write("applyTemplate", {i}, NoMonth,
                 [startTime |-> m, status |-> NoStatus]))

\* applyTemplate from the answer of db.addTask to its end
ApplyTemplateSettle ==
  /\ Awaits("applyTemplate")
  /\ LET w == Head(writes)
         m == w.u.startTime
         new == {Task(i, m, "Date", "not-started") : i \in w.ids}
     IN
     \/ /\ dbTasks' = dbTasks \cup new
        /\ tasks' = tasks \cup new
        /\ dirtyMonths' = ApplyTemplateDirty(dirtyMonths, m)
        /\ ev' = Event("applyTemplate", TRUE, "success", NoMonth, m)
     \/ /\ UNCHANGED <<dbTasks, tasks, dirtyMonths>>      \* caught: toast.error
        /\ ev' = Failed("applyTemplate", "error", NoMonth, m,
                         Swallowed(DbCaught(StorageError)))
  /\ writes' = Tail(writes)
  /\ TaskFrame

\* addTemplate: db.addTemplate, then the template joins the list
AddTemplate ==
  /\ templates = 0 /\ dbTemplates = 0
  /\ dbTemplates' = 1
  /\ templates' = 1
  /\ ev' = Event("addTemplate", TRUE, "success", NoMonth, NoMonth)
  /\ UNCHANGED <<tasks, dirtyMonths, webdavConfig, lastSyncTime, isSyncing,
                 dbTasks, dbAnalytics, dbSync, remote, remoteConfig, dirs, clock,
                 push, pull, cfgOp, loadOp, writes>>

\* ------------------------------------------------------------------- push
\* syncToWebDAV leaving dirtyMonths as it finds it
PushDirtyKept(snap, live) == live

\* syncToWebDAV, the dirtyMonths it stores and sets when it has succeeded
PushDirty(snap, live) == NoDirty

\* syncToWebDAV, the lastSyncTime it stores and sets when it has succeeded
PushLastSync(old, now) == now

\* the months dirty in the state syncToWebDAV read at its start, NoMonth for none
SnapMonths(snap) ==
  IF snap = NoDirty THEN {NoMonth} ELSE {m \in Months : IsDirty(snap, m)}

\* syncToWebDAV up to its first await (the guard on webdavConfig, isSyncing)
PushStart ==
  /\ push.pc = "idle"
  /\ \/ /\ webdavConfig = NoCfg
        /\ ev' = Event("syncToWebDAV", FALSE, "error", NoMonth, NoMonth)
        /\ UNCHANGED <<isSyncing, push>>
     \/ /\ webdavConfig # NoCfg
        /\ isSyncing' = TRUE
        /\ push' = [pc |-> "timer", cfg |-> webdavConfig, snapDirty |-> dirtyMonths]
        /\ ev' = Event("syncToWebDAV", TRUE, "none", NoMonth, NoMonth)
  /\ UNCHANGED <<writes, tasks, dirtyMonths, webdavConfig, lastSyncTime, templates,
                 dbTasks, dbAnalytics, dbTemplates, dbSync, remote, remoteConfig, dirs,
                 clock, pull, cfgOp, loadOp>>

\* syncToWebDAV calling set({lastSyncTime, dirtyMonths}) before the state is
\* stored, so that a failing db.updateWebDAVState leaves the store changed
PushSettleSetFirst ==
  /\ push.pc = "timer"
  /\ \E now \in 1..MaxClock :
       /\ Now(now)
       /\ clock' = now
       /\ lastSyncTime' = PushLastSync(lastSyncTime, now)
       /\ dirtyMonths' = PushDirty(push.snapDirty, dirtyMonths)
       /\ \/ /\ dbSync' = UpdateWebDAVState(push.cfg,
                                             PushLastSync(lastSyncTime, now),
                                             PushDirty(push.snapDirty, dirtyMonths))
             /\ \E m \in SnapMonths(push.snapDirty) :
                  ev' = Event("pushDone", TRUE, "success", m, NoMonth)
          \/ /\ UNCHANGED dbSync
             /\ ev' = Event("pushDone", FALSE, "error", NoMonth, NoMonth)
  /\ isSyncing' = FALSE
  /\ push' = IdlePush
  /\ UNCHANGED <<writes, tasks, webdavConfig, templates, dbTasks, dbAnalytics,
                 dbTemplates, remote, remoteConfig, dirs, pull, cfgOp, loadOp>>

\* syncToWebDAV without its finally: a failing db.updateWebDAVState leaves
\* isSyncing as it is
PushSettleNoFinally ==
  /\ push.pc = "timer"
  /\ \E now \in 1..MaxClock :
       /\ Now(now)
       /\ clock' = now
       /\ \/ /\ dbSync' = UpdateWebDAVState(push.cfg,
                                             PushLastSync(lastSyncTime, now),
                                             PushDirty(push.snapDirty, dirtyMonths))
             /\ lastSyncTime' = PushLastSync(lastSyncTime, now)
             /\ dirtyMonths' = PushDirty(push.snapDirty, dirtyMonths)
             /\ isSyncing' = FALSE
             /\ \E m \in SnapMonths(push.snapDirty) :
                  ev' = Event("pushDone", TRUE, "success", m, NoMonth)
          \/ /\ UNCHANGED <<dbSync, lastSyncTime, dirtyMonths, isSyncing>>
             /\ ev' = Event("pushDone", FALSE, "error", NoMonth, NoMonth)
  /\ push' = IdlePush
  /\ UNCHANGED <<writes, tasks, webdavConfig, templates, dbTasks, dbAnalytics,
                 dbTemplates, remote, remoteConfig, dirs, pull, cfgOp, loadOp>>

\* syncToWebDAV after the timer: new Date(), db.updateWebDAVState, set, finally
PushSettle ==
  /\ push.pc = "timer"
  /\ \E now \in 1..MaxClock :
       /\ Now(now)
       /\ clock' = now
       /\ \/ /\ dbSync' = UpdateWebDAVState(push.cfg,
                                             PushLastSync(lastSyncTime, now),
                                             PushDirty(push.snapDirty, dirtyMonths))
             /\ lastSyncTime' = PushLastSync(lastSyncTime, now)
             /\ dirtyMonths' = PushDirty(push.snapDirty, dirtyMonths)
             /\ \E m \in SnapMonths(push.snapDirty) :
                  ev' = Event("pushDone", TRUE, "success", m, NoMonth)
          \/ /\ UNCHANGED <<dbSync, lastSyncTime, dirtyMonths>>   \* caught
             /\ ev' = Event("pushDone", FALSE, "error", NoMonth, NoMonth)
  /\ isSyncing' = FALSE
  /\ push' = IdlePush
  /\ UNCHANGED <<writes, tasks, webdavConfig, templates, dbTasks, dbAnalytics,
                 dbTemplates, remote, remoteConfig, dirs, pull, cfgOp, loadOp>>

\* -------------------------------------------------------- setWebDAVConfig
\* setWebDAVConfig up to the answer of db.getWebDAVState()
CfgRead(config) ==
  /\ cfgOp.pc = "idle"
  /\ cfgOp' = [pc |-> "write", config |-> config, currentState |-> dbSync]
  /\ ev' = Event("setWebDAVConfig", TRUE, "none", NoMonth, NoMonth)
  /\ UNCHANGED <<writes, tasks, dirtyMonths, webdavConfig, lastSyncTime, isSyncing,
                 templates, dbTasks, dbAnalytics, dbTemplates, dbSync, remote,
                 remoteConfig, dirs, clock, push, pull, loadOp>>

\* newState.lastSyncTime: currentState?.lastSyncTime || null
CfgLastSync(currentState) == currentState.lastSyncTime

\* newState.dirtyMonths: currentState?.dirtyMonths || []
CfgDirty(currentState) == currentState.dirtyMonths

\* setWebDAVConfig from db.updateWebDAVState(newState) to its end
CfgWrite ==
  /\ cfgOp.pc = "write"
  /\ \/ /\ dbSync' = UpdateWebDAVState(cfgOp.config, CfgLastSync(cfgOp.currentState),
                                         CfgDirty(cfgOp.currentState))
        /\ webdavConfig' = cfgOp.config
        /\ lastSyncTime' = CfgLastSync(cfgOp.currentState)
        /\ dirtyMonths' = CfgDirty(cfgOp.currentState)
        /\ ev' = Event("configSaved", TRUE, "none", NoMonth, NoMonth)
     \/ /\ UNCHANGED <<dbSync, webdavConfig, lastSyncTime, dirtyMonths>>
        /\ ev' = Event("configSaved", FALSE, "error", NoMonth, NoMonth)
  /\ cfgOp' = IdleCfg
  /\ UNCHANGED <<writes, tasks, isSyncing, templates, dbTasks, dbAnalytics, dbTemplates,
                 remote, remoteConfig, dirs, clock, push, pull, loadOp>>

\* -------------------------------------------------------- loadInitialData
\* loadInitialData up to the answers of the six database reads
LoadRead ==
  /\ loadOp.pc = "idle"
  /\ loadOp' = [pc |-> "set", tasks |-> dbTasks, templates |-> dbTemplates,
                webdavState |-> dbSync]
  /\ ev' = Event("loadInitialData", TRUE, "none", NoMonth, NoMonth)
  /\ UNCHANGED <<writes, tasks, dirtyMonths, webdavConfig, lastSyncTime, isSyncing,
                 templates, dbTasks, dbAnalytics, dbTemplates, dbSync, remote,
                 remoteConfig, dirs, clock, push, pull, cfgOp>>

\* dirtyMonths: webdavState?.dirtyMonths || []
LoadDirty(webdavState, live) == webdavState.dirtyMonths

\* loadInitialData, the set({...}) of what was read
LoadSet ==
  /\ loadOp.pc = "set"
  /\ tasks' = loadOp.tasks
  /\ templates' = loadOp.templates
  /\ webdavConfig' = IF loadOp.webdavState.present THEN loadOp.webdavState.cfg
                     ELSE webdavConfig
  /\ lastSyncTime' = loadOp.webdavState.lastSyncTime
  /\ dirtyMonths' = LoadDirty(loadOp.webdavState, dirtyMonths)
  /\ loadOp' = IdleLoad
  /\ ev' = Event("loaded", TRUE, "none", NoMonth, NoMonth)
  /\ UNCHANGED <<writes, isSyncing, dbTasks, dbAnalytics, dbTemplates, dbSync, remote,
                 remoteConfig, dirs, clock, push, pull, cfgOp>>

\* ------------------------------------------------------------------- pull
\* the task records of the shard file of month m, as JSON.parse returns them:
\* startTime is an ISO string
RemoteTasks(m) == {Task(i, m, "string", "not-started") : i \in remote[m].ids}

\* JSON.stringify(data) in the endpoint's 'put': a Date is written as its ISO
\* string, a string as it is
Stringify(ts) == {[t EXCEPT !.kind = "string"] : t \in ts}

\* JSON.parse(content) in the endpoint's 'get', and the tasks pushed into
\* allCurrentTasks as they were received: no reviver, no coercion
Parse(ts) == ts

\* taskFiles.filter(...): the files to download
FilesToDownload(last) ==
  {m \in Months : /\ remote[m].exists
                  /\ (last = NullTime \/ remote[m].lastmod > last)}

\* allCurrentTasks after the loop over the results: for each downloaded month,
\* the tasks of other months, then the remote tasks
ReplaceMonths(ts, got) ==
  {t \in ts : MonthOf(t) \notin got} \cup UNION {RemoteTasks(m) : m \in got}

\* db.tasks.where('startTime').between(startOfMonth, endOfMonth).delete():
\* an IndexedDB range of Dates holds no string key
DeleteRange(db, ms) == {t \in db : ~(MonthOf(t) \in ms /\ t.kind = "Date")}

\* db.tasks.bulkPut(newTasks): put by primary key
BulkPut(db, new) == {t \in db : t.id \notin Ids(new)} \cup new

\* db.importData({aiConfig, workSchedule, templates}): the tasks table after it
ImportDataTasks(db) == {}

\* db.importData({aiConfig, workSchedule, templates}): the analytics table
ImportDataAnalytics(n) == 0

\* db.importData({aiConfig, workSchedule, templates}): the templates table,
\* cleared and then filled with data.templates when there are any
ImportDataTemplates(n, rc) == IF rc.hasTemplates THEN rc.templates ELSE 0

\* set({..., templates: remoteConfig.templates || []})
PullTemplates(n, rc) == IF rc.hasTemplates THEN rc.templates ELSE 0

\* the directories the proxy handler makes sure of before it serves a request
Directories == {"/align", "/align/data"}

\* if (await client.exists(path) === false) await client.createDirectory(path)
EnsureDirectories(d) == d \cup Directories

\* a request sent to /api/webdav: the handler ensures the directories and
\* answers, or fails before it has (the WebDAV server does not answer)
Proxied(answered) ==
  IF answered THEN dirs' = EnsureDirectories(dirs)
              ELSE dirs' \in {dirs, EnsureDirectories(dirs)}

Settled(op, ok, toast) == Event(op, ok, toast, NoMonth, NoMonth)

\* syncFromWebDAV setting isSyncing before it looks at webdavConfig
PullStartSetFirst ==
  /\ pull.pc = "idle"
  /\ isSyncing' = TRUE
  /\ \/ /\ webdavConfig = NoCfg
        /\ ev' = Event("syncFromWebDAV", FALSE, "error", NoMonth, NoMonth)
        /\ UNCHANGED pull
     \/ /\ webdavConfig # NoCfg
        /\ pull' = [pc |-> "config", cfg |-> webdavConfig, tasks |-> tasks,
                    lastSyncTime |-> lastSyncTime, files |-> {},
                    answers |-> NoAnswers, toasts |-> 0]
        /\ ev' = Event("syncFromWebDAV", TRUE, "none", NoMonth, NoMonth)
  /\ UNCHANGED <<writes, tasks, dirtyMonths, webdavConfig, lastSyncTime, templates,
                 dbTasks, dbAnalytics, dbTemplates, dbSync, remote, remoteConfig, dirs,
                 clock, push, cfgOp, loadOp>>

\* syncFromWebDAV up to its first await
PullStart ==
  /\ pull.pc = "idle"
  /\ \/ /\ webdavConfig = NoCfg
        /\ ev' = Event("syncFromWebDAV", FALSE, "error", NoMonth, NoMonth)
        /\ UNCHANGED <<isSyncing, pull>>
     \/ /\ webdavConfig # NoCfg
        /\ isSyncing' = TRUE
        /\ pull' = [pc |-> "config", cfg |-> webdavConfig, tasks |-> tasks,
                    lastSyncTime |-> lastSyncTime, files |-> {},
                    answers |-> NoAnswers, toasts |-> 0]
        /\ ev' = Event("syncFromWebDAV", TRUE, "none", NoMonth, NoMonth)
  /\ UNCHANGED <<writes, tasks, dirtyMonths, webdavConfig, lastSyncTime, templates,
                 dbTasks, dbAnalytics, dbTemplates, dbSync, remote, remoteConfig, dirs,
                 clock, push, cfgOp, loadOp>>

\* syncFromWebDAV, step 1: the answer to get config.json, db.importData, set
PullConfig ==
  /\ pull.pc = "config"
  /\ \/ /\ remoteConfig.exists                 \* configRes.ok and result.data
        /\ dbTasks' = ImportDataTasks(dbTasks)
        /\ dbAnalytics' = ImportDataAnalytics(dbAnalytics)
        /\ dbTemplates' = ImportDataTemplates(dbTemplates, remoteConfig)
        /\ templates' = PullTemplates(templates, remoteConfig)
        /\ pull' = [pull EXCEPT !.pc = "list"]
        /\ ev' = Settled("pullConfig", TRUE, "none")
        /\ Proxied(TRUE)
        /\ UNCHANGED isSyncing
     \/ /\ ~remoteConfig.exists                \* no data in the answer
        /\ pull' = [pull EXCEPT !.pc = "list"]
        /\ ev' = Settled("pullConfig", TRUE, "none")
        /\ Proxied(FALSE)
        /\ UNCHANGED <<dbTasks, dbAnalytics, dbTemplates, templates, isSyncing>>
     \/ /\ pull' = IdlePull                     \* fetch or importData throws
        /\ isSyncing' = FALSE
        /\ ev' = Settled("pullDone", FALSE, "error")
        /\ Proxied(FALSE)
        /\ UNCHANGED <<dbTasks, dbAnalytics, dbTemplates, templates>>
  /\ UNCHANGED <<writes, tasks, dirtyMonths, webdavConfig, lastSyncTime, dbSync, remote,
                 remoteConfig, clock, push, cfgOp, loadOp>>

\* syncFromWebDAV, step 2: the answer to listFiles
PullList ==
  /\ pull.pc = "list"
  /\ \/ /\ FilesToDownload(pull.lastSyncTime) # {}
        /\ pull' = [pull EXCEPT !.pc = "download",
                                !.files = FilesToDownload(pull.lastSyncTime)]
        /\ ev' = Settled("pullList", TRUE, "none")
        /\ Proxied(TRUE)
        /\ UNCHANGED isSyncing
     \/ /\ FilesToDownload(pull.lastSyncTime) = {}
        /\ pull' = [pull EXCEPT !.pc = "persist", !.toasts = @ + 1]
        /\ ev' = Settled("pullList", TRUE, "info")
        /\ Proxied(TRUE)
        /\ UNCHANGED isSyncing
     \/ /\ pull' = IdlePull                     \* listRes.ok is false
        /\ isSyncing' = FALSE
        /\ ev' = Settled("pullDone", FALSE, "none")
        /\ Proxied(FALSE)
     \/ /\ pull' = IdlePull                     \* fetch throws
        /\ isSyncing' = FALSE
        /\ ev' = Settled("pullDone", FALSE, "error")
        /\ Proxied(FALSE)
  /\ UNCHANGED <<writes, tasks, dirtyMonths, webdavConfig, lastSyncTime, templates,
                 dbTasks, dbAnalytics, dbTemplates, dbSync, remote, remoteConfig,
                 clock, push, cfgOp, loadOp>>

\* syncFromWebDAV, step 3: the download promises settle, each with its answer
PullDownload ==
  /\ pull.pc = "download"
  /\ \E ans \in [Months -> Answers \cup {"none"}] :
       /\ \A m \in Months : ans[m] = "none" <=> m \notin pull.files
       /\ pull' = [pull EXCEPT !.pc = "apply", !.answers = ans]
       /\ Proxied(\E m \in Months : ans[m] \in {"ok", "notOk", "noData"})
  /\ ev' = Settled("pullDownload", TRUE, "none")
  /\ UNCHANGED <<writes, tasks, dirtyMonths, webdavConfig, lastSyncTime, isSyncing,
                 templates, dbTasks, dbAnalytics, dbTemplates, dbSync, remote,
                 remoteConfig, clock, push, cfgOp, loadOp>>

\* the months whose download rejects Promise.all or makes data.tasks throw
Thrown(answers) == {m \in Months : answers[m] \in {"throws", "noData"}}

\* syncFromWebDAV, steps 3 and 4 after await Promise.all: the new task list,
\* the database deletes and bulkPut, set({tasks}).  got: the files answered
\* with res.ok, the others give null
PullApply ==
  /\ pull.pc = "apply"
  /\ LET got == {m \in pull.files : pull.answers[m] = "ok"}
         all == ReplaceMonths(pull.tasks, got)
         new == {t \in all : MonthOf(t) \in got}
     IN
     \/ /\ Thrown(pull.answers) = {} /\ got # {}
        /\ dbTasks' = BulkPut(DeleteRange(dbTasks, got), new)
        /\ tasks' = all
        /\ pull' = [pull EXCEPT !.pc = "persist", !.files = got, !.toasts = @ + 1]
        /\ ev' = Settled("pullApply", TRUE, "success")
        /\ UNCHANGED isSyncing
     \/ /\ Thrown(pull.answers) = {} /\ got = {}     \* hasUpdates is false
        /\ pull' = [pull EXCEPT !.pc = "persist", !.files = got, !.toasts = @ + 1]
        /\ ev' = Settled("pullApply", TRUE, "success")
        /\ UNCHANGED <<dbTasks, tasks, isSyncing>>
     \/ /\ Thrown(pull.answers) = {} /\ got # {}     \* a delete or bulkPut throws
        /\ \E del \in SUBSET got : dbTasks' = DeleteRange(dbTasks, del)
        /\ pull' = IdlePull
        /\ isSyncing' = FALSE
        /\ ev' = Settled("pullDone", FALSE, "error")
        /\ UNCHANGED tasks
     \/ /\ \E m \in Thrown(pull.answers) :           \* caught: toast.error
             ev' = Event("pullDone", FALSE, "error", NoMonth, m)
        /\ pull' = IdlePull
        /\ isSyncing' = FALSE
        /\ UNCHANGED <<dbTasks, tasks>>
  /\ UNCHANGED <<writes, dirtyMonths, webdavConfig, lastSyncTime, templates, dbAnalytics,
                 dbTemplates, dbSync, remote, remoteConfig, dirs, clock, push, cfgOp,
                 loadOp>>

\* syncFromWebDAV, the dirtyMonths it stores in newState
PullStoredDirty(live) == NoDirty

\* syncFromWebDAV calling set({lastSyncTime: now}) before the state is stored
PullSettleSetFirst ==
  /\ pull.pc = "persist"
  /\ \E now \in 1..MaxClock :
       /\ Now(now)
       /\ clock' = now
       /\ lastSyncTime' = now
       /\ \/ /\ dbSync' = UpdateWebDAVState(pull.cfg, now, NoDirty)
             /\ ev' = Settled("pullDone", TRUE, "none")
          \/ /\ UNCHANGED dbSync
             /\ ev' = Settled("pullDone", FALSE, "error")
  /\ isSyncing' = FALSE
  /\ pull' = IdlePull
  /\ UNCHANGED <<writes, tasks, dirtyMonths, webdavConfig, templates, dbTasks,
                 dbAnalytics, dbTemplates, remote, remoteConfig, dirs, push, cfgOp,
                 loadOp>>

\* syncFromWebDAV, the end: new Date(), db.updateWebDAVState, set, finally
PullSettle ==
  /\ pull.pc = "persist"
  /\ \E now \in 1..MaxClock :
       /\ Now(now)
       /\ clock' = now
       /\ \/ /\ dbSync' = UpdateWebDAVState(pull.cfg, now, PullStoredDirty(dirtyMonths))
             /\ lastSyncTime' = now
             /\ ev' = Settled("pullDone", TRUE, "none")
          \/ /\ UNCHANGED <<dbSync, lastSyncTime>>               \* caught
             /\ ev' = Settled("pullDone", FALSE, "error")
  /\ isSyncing' = FALSE
  /\ pull' = IdlePull
  /\ UNCHANGED <<writes, tasks, dirtyMonths, webdavConfig, templates, dbTasks,
                 dbAnalytics, dbTemplates, remote, remoteConfig, dirs, push, cfgOp,
                 loadOp>>

\* ----------------------------------------------------------- other devices
\* another device puts the shard file of month m (a well-formed shard: tasks
\* of month m, no id in two files)
RemotePut(m, ids) ==
  /\ \A o \in Months \ {m} : remote[o].ids \cap ids = {}
  /\ \E now \in 1..MaxClock :
       /\ Now(now)
       /\ clock' = now
       /\ remote' = [remote EXCEPT ![m] = [exists |-> TRUE, ids |-> ids, lastmod |-> now]]
  /\ dirs' = EnsureDirectories(dirs)
  /\ ev' = Settled("remotePut", TRUE, "none")
  /\ UNCHANGED <<writes, tasks, dirtyMonths, webdavConfig, lastSyncTime, isSyncing,
                 templates, dbTasks, dbAnalytics, dbTemplates, dbSync,
                 remoteConfig, push, pull, cfgOp, loadOp>>

\* another device puts config.json
RemotePutConfig(n) ==
  /\ remoteConfig' = [exists |-> TRUE, hasTemplates |-> TRUE, templates |-> n]
  /\ remoteConfig' # remoteConfig
  /\ dirs' = EnsureDirectories(dirs)
  /\ ev' = Settled("remotePut", TRUE, "none")
  /\ UNCHANGED <<writes, tasks, dirtyMonths, webdavConfig, lastSyncTime, isSyncing,
                 templates, dbTasks, dbAnalytics, dbTemplates, dbSync, remote,
                 clock, push, pull, cfgOp, loadOp>>

\* ------------------------------------------------- the /api/webdav endpoint
\* the implementations of the endpoint: the dev server's middleware, the
\* serverless handler, and the older serverless handler
Handlers == {"vite.config.ts", "part_010", "api/webdav.js"}

\* case 'get' of the dev server's middleware: statusCode 404 is set for a
\* missing file, and the common ending sets statusCode = 200 over it
ViteGet(exists) ==
  LET statusCode == IF exists THEN 200 ELSE 404
      writableEnded == FALSE
  IN  [status |-> IF ~writableEnded THEN 200 ELSE statusCode, data |-> exists]

\* case 'get' of the serverless handler
VercelGet(exists) == [status |-> IF exists THEN 200 ELSE 404, data |-> exists]

\* action 'get' of the older serverless handler
LegacyGet(exists) == [status |-> IF exists THEN 200 ELSE 404, data |-> exists]

HandlerGet(h, exists) ==
  CASE h = "vite.config.ts" -> ViteGet(exists)
    [] h = "part_010"       -> VercelGet(exists)
    [] h = "api/webdav.js"  -> LegacyGet(exists)

\* res.ok of fetch
ResOk(status) == status >= 200 /\ status <= 299

\* a 'get' request for the shard of month m, served by handler h
Get(h, m) ==
  /\ LET res == HandlerGet(h, remote[m].exists)
     IN  ev' = [op |-> "get", ok |-> ResOk(res.status), toast |-> "none",
                from |-> m, to |-> NoMonth, caller |-> "returns",
                handler |-> h, status |-> res.status, data |-> res.data]
  /\ dirs' = IF h = "api/webdav.js" THEN dirs ELSE EnsureDirectories(dirs)
  /\ UNCHANGED <<writes, tasks, dirtyMonths, webdavConfig, lastSyncTime, isSyncing,
                 templates, dbTasks, dbAnalytics, dbTemplates, dbSync, remote,
                 remoteConfig, clock, push, pull, cfgOp, loadOp>>

\* another device puts a config.json that holds no templates
RemotePutBareConfig ==
  /\ remoteConfig' = [exists |-> TRUE, hasTemplates |-> FALSE, templates |-> 0]
  /\ remoteConfig' # remoteConfig
  /\ dirs' = EnsureDirectories(dirs)
  /\ ev' = Settled("remotePut", TRUE, "none")
  /\ UNCHANGED <<writes, tasks, dirtyMonths, webdavConfig, lastSyncTime, isSyncing,
                 templates, dbTasks, dbAnalytics, dbTemplates, dbSync, remote,
                 clock, push, pull, cfgOp, loadOp>>

\* ------------------------------------------------------------ specification
Init ==
  /\ tasks = {}
  /\ dirtyMonths = NoDirty
  /\ webdavConfig = NoCfg
  /\ lastSyncTime = NullTime
  /\ isSyncing = FALSE
  /\ templates = 0
  /\ dbTasks = {}
  /\ dbAnalytics = 1
  /\ dbTemplates = 0
  /\ dbSync = NoState
  /\ remote = [m \in Months |-> NoFile]
  /\ remoteConfig = NoRemoteConfig
  /\ dirs = {}
  /\ clock = 1
  /\ push = IdlePush
  /\ pull = IdlePull
  /\ cfgOp = IdleCfg
  /\ loadOp = IdleLoad
  /\ writes = <<>>
  /\ ev = Settled("init", TRUE, "none")

\* the store after setWebDAVConfig("cfgA") has been saved
InitConfigured ==
  /\ tasks = {}
  /\ dirtyMonths = NoDirty
  /\ webdavConfig = "cfgA"
  /\ lastSyncTime = NullTime
  /\ isSyncing = FALSE
  /\ templates = 0
  /\ dbTasks = {}
  /\ dbAnalytics = 1
  /\ dbTemplates = 0
  /\ dbSync = UpdateWebDAVState("cfgA", NullTime, NoDirty)
  /\ remote = [m \in Months |-> NoFile]
  /\ remoteConfig = NoRemoteConfig
  /\ dirs = {}
  /\ clock = 1
  /\ push = IdlePush
  /\ pull = IdlePull
  /\ cfgOp = IdleCfg
  /\ loadOp = IdleLoad
  /\ writes = <<>>
  /\ ev = Settled("init", TRUE, "none")

\* Push and pull in flight together, other devices writing the March shard
\* and config.json.
Next ==
  \/ PushStart
  \/ PushSettle
  \/ PullStart
  \/ PullConfig
  \/ PullList
  \/ PullDownload
  \/ PullApply
  \/ PullSettle
  \/ \E ids \in SUBSET TaskIds : RemotePut("2024-03", ids)
  \/ RemotePutConfig(0)

Spec == InitConfigured /\ [][Next]_vars

\* Every awaited promise settles: the timer fires, IndexedDB answers, fetch
\* resolves or rejects; so a handler at an await takes its next step.
Fairness ==
  /\ WF_vars(PushSettle)
  /\ WF_vars(PullConfig)
  /\ WF_vars(PullList)
  /\ WF_vars(PullDownload)
  /\ WF_vars(PullApply)
  /\ WF_vars(PullSettle)

\* Push and pull in flight together, another device writing task 1 to the
\* March shard and config.json.
LiveNext ==
  \/ PushStart
  \/ PushSettle
  \/ PullStart
  \/ PullConfig
  \/ PullList
  \/ PullDownload
  \/ PullApply
  \/ PullSettle
  \/ RemotePut("2024-03", {1})
  \/ RemotePutConfig(0)

SpecLive == InitConfigured /\ [][LiveNext]_vars /\ Fairness

\* no task handler awaits the tasks table
NoWrite == writes = <<>>

\* Adding tasks, one at a time, and saving the configuration while a push is
\* in flight.
PushNext ==
  \/ NoWrite /\ \E i \in TaskIds, m \in Months : AddTask(i, m)
  \/ AddTaskSettle
  \/ PushStart
  \/ PushSettle
  \/ \E c \in Configs : CfgRead(c)
  \/ CfgWrite

SpecPush == Init /\ [][PushNext]_vars

\* Pulls that run to their end before the next task write or remote put.
NoPull == pull.pc = "idle"

PullNext ==
  \/ NoPull /\ NoWrite /\ \E i \in TaskIds, m \in Months : AddTask(i, m)
  \/ NoPull /\ AddTaskSettle
  \/ NoPull /\ \E ids \in SUBSET TaskIds : RemotePut("2024-03", ids)
  \/ NoPull /\ RemotePutConfig(0)
  \/ PullStart
  \/ PullConfig
  \/ PullList
  \/ PullDownload
  \/ PullApply
  \/ PullSettle

SpecPull == InitConfigured /\ [][PullNext]_vars

\* Pulls of two shard files and of config.json: other devices write task 1 to
\* the March shard, task 2 to the April shard, and a config.json with or
\* without templates; this device saves a template.
ShardsNext ==
  \/ NoPull /\ RemotePut("2024-03", {1})
  \/ NoPull /\ RemotePut("2024-04", {2})
  \/ NoPull /\ RemotePutConfig(0)
  \/ NoPull /\ RemotePutBareConfig
  \/ NoPull /\ AddTemplate
  \/ NoPull /\ \E h \in Handlers, m \in Months : Get(h, m)
  \/ PullStart
  \/ PullConfig
  \/ PullList
  \/ PullDownload
  \/ PullApply
  \/ PullSettle

SpecShards == InitConfigured /\ [][ShardsNext]_vars

\* Every task write of the store, one at a time, and loadInitialData run to
\* its end.
\* A store that starts without a WebDAV configuration: tasks are added, a
\* push or a pull is asked for, and the configuration is saved at some point.
FirstUseNext ==
  \/ NoPull /\ NoWrite /\ \E i \in TaskIds, m \in Months : AddTask(i, m)
  \/ NoPull /\ AddTaskSettle
  \/ NoPull /\ RemotePut("2024-03", {1})
  \/ NoPull /\ webdavConfig = NoCfg /\ CfgRead("cfgA")
  \/ CfgWrite
  \/ PushStart
  \/ PushSettle
  \/ PullStart
  \/ PullConfig
  \/ PullList
  \/ PullDownload
  \/ PullApply
  \/ PullSettle

SpecFirstUse == Init /\ [][FirstUseNext]_vars

\* Tasks added in April before and while a pull of the March shard and of
\* config.json is in flight.
DuringNext ==
  \/ NoWrite /\ \E i \in TaskIds : AddTask(i, "2024-04")
  \/ AddTaskSettle
  \/ NoPull /\ RemotePut("2024-03", {1})
  \/ NoPull /\ RemotePutConfig(0)
  \/ PullStart
  \/ PullConfig
  \/ PullList
  \/ PullDownload
  \/ PullApply
  \/ PullSettle

SpecDuring == InitConfigured /\ [][DuringNext]_vars

NoLoad == loadOp.pc = "idle"

Quiet == NoLoad /\ NoWrite

TasksNext ==
  \/ Quiet /\ \E i \in TaskIds, m \in Months : AddTask(i, m)
  \/ AddTaskSettle
  \/ Quiet /\ \E i \in TaskIds, u \in Updates : UpdateTask(i, u)
  \/ UpdateTaskSettle
  \/ Quiet /\ \E i \in TaskIds : DeleteTask(i)
  \/ DeleteTaskSettle
  \/ Quiet /\ \E i \in TaskIds, m \in Months : MoveTask(i, m)
  \/ MoveTaskSettle
  \/ Quiet /\ \E ids \in SUBSET TaskIds, s \in Statuses :
                BatchUpdateTaskStatus(ids, s)
  \/ BatchUpdateTaskStatusSettle
  \/ Quiet /\ \E i \in TaskIds, m \in Months : ApplyTemplate(i, m)
  \/ ApplyTemplateSettle
  \/ Quiet /\ AddTemplate
  \/ NoWrite /\ LoadRead
  \/ LoadSet

SpecTasks == Init /\ [][TasksNext]_vars

\* moveTask called while an updateTask or another moveTask awaits the tasks
\* table, and a push in flight.
MoveNext ==
  \/ NoWrite /\ \E i \in TaskIds, m \in Months : AddTask(i, m)
  \/ AddTaskSettle
  \/ NoWrite /\ \E i \in TaskIds, u \in Updates : UpdateTask(i, u)
  \/ UpdateTaskSettle
  \/ \E i \in TaskIds, m \in Months : MoveTask(i, m)
  \/ MoveTaskSettle
  \/ PushStart
  \/ PushSettle

SpecMove == InitConfigured /\ [][MoveNext]_vars

\* ----------------------------------------------------------------- claims
InMonth(ts, m) == {t \in ts : MonthOf(t) = m}

PushSucceeds == push.pc = "timer" /\ push'.pc = "idle" /\ ev'.ok
PushFails    == push.pc = "timer" /\ push'.pc = "idle" /\ ~ev'.ok
PushBegins   == push.pc = "idle" /\ push'.pc = "timer"
PushRefused  == ev'.op = "syncToWebDAV" /\ ~ev'.ok

\* C1: a push or pull requested while another is in flight is rejected: no
\* state has a push and a pull in flight together.
C1_OneSyncInFlight == ~(push.pc # "idle" /\ pull.pc # "idle")

\* C2: a successful push clears the dirty keys it snapshotted at its start
\* only: a month marked dirty while the push was in flight is still dirty
\* when the push has succeeded.
C2_PushKeepsLaterMarks ==
  [][PushSucceeds =>
       \A m \in Months :
         (IsDirty(dirtyMonths, m) /\ ~IsDirty(push.snapDirty, m))
           => IsDirty(dirtyMonths', m)]_vars

\* C3: when a push has succeeded, the remote shard file of every month that
\* was dirty at its start holds exactly the local tasks of that month.
C3_PushWritesShards ==
  [][PushSucceeds =>
       \A m \in Months :
         IsDirty(push.snapDirty, m)
           => /\ remote'[m].exists
              /\ remote'[m].ids = Ids(InMonth(tasks', m))]_vars

\* C4: a step of a pull deletes no local task of a month that has no remote
\* shard file (it cannot be among the downloaded months), neither from the
\* tasks table nor from the task list, and no record of the analytics table.
C4_PullDeletesOnlyShards ==
  [][pull' # pull =>
       /\ \A t \in dbTasks : ~remote[MonthOf(t)].exists => t \in dbTasks'
       /\ \A t \in tasks : ~remote[MonthOf(t)].exists => t \in tasks'
       /\ dbAnalytics' >= dbAnalytics]_vars

\* C5: when a pull has replaced the downloaded shards, the local tasks of each
\* downloaded month are exactly the downloaded tasks, in the task list and in
\* the tasks table.
C5_ShardReplaced ==
  (ev.op = "pullApply" /\ ev.ok) =>
    \A m \in pull.files :
      /\ InMonth(tasks, m) = RemoteTasks(m)
      /\ InMonth(dbTasks, m) = RemoteTasks(m)

\* C6: lastSyncTime never moves backward, in memory or in the stored state
\* (null is before every instant).
C6_LastSyncTimeMonotone ==
  [][/\ lastSyncTime' >= lastSyncTime
     /\ dbSync'.lastSyncTime >= dbSync.lastSyncTime]_vars

\* C7: after a task write has committed, the months of the task it wrote are
\* in dirtyMonths.
TaskWrites == {"addTask", "updateTask", "deleteTask", "moveTask", "applyTemplate"}

C7_WriteCarriesDirtyMark ==
  (ev.op \in TaskWrites /\ ev.ok) =>
    /\ ev.from # NoMonth => IsDirty(dirtyMonths, ev.from)
    /\ ev.to # NoMonth => IsDirty(dirtyMonths, ev.to)

\* C8: when updateTask or moveTask has moved a task from month a to another
\* month b, both a and b are in dirtyMonths.
C8_CrossMonthMarksBoth ==
  [][\A i \in TaskIds, a \in Months, b \in Months :
       ( /\ a # b
         /\ ev'.op \in {"updateTask", "moveTask"} /\ ev'.ok
         /\ i \in Ids(InMonth(tasks, a))
         /\ i \notin Ids(InMonth(tasks, b))
         /\ i \in Ids(InMonth(tasks', b)) )
       => IsDirty(dirtyMonths', a) /\ IsDirty(dirtyMonths', b)]_vars

\* C9: a month that is dirty is still dirty when loadInitialData has reloaded
\* the store from the database.
C9_DirtySurvivesReload ==
  [][(loadOp.pc = "set" /\ loadOp'.pc = "idle") =>
       \A m \in Months : IsDirty(dirtyMonths, m) => IsDirty(dirtyMonths', m)]_vars

\* C11: when a push has succeeded, no month that was dirty in the state it read
\* at its start is dirty, in memory or in the stored state.
C11_PushClearsSnapshot ==
  [][PushSucceeds =>
       \A m \in Months :
         IsDirty(push.snapDirty, m)
           => /\ ~IsDirty(dirtyMonths', m)
              /\ ~IsDirty(dbSync'.dirtyMonths, m)]_vars

C11_Witness ==
  /\ ev.op = "pushDone" /\ ev.ok /\ ev.from # NoMonth
  /\ InMonth(tasks, ev.from) # {}

\* C12: every started push or pull settles, isSyncing is false when it has
\* settled, and isSyncing is never true with no push and no pull in flight.
InFlight == push.pc # "idle" \/ pull.pc # "idle"

C12_IdleRestored ==
  /\ [](isSyncing => InFlight)
  /\ [][(push.pc # "idle" /\ push'.pc = "idle") => ~isSyncing']_vars
  /\ [][(pull.pc # "idle" /\ pull'.pc = "idle") => ~isSyncing']_vars
  /\ (push.pc # "idle") ~> (push.pc = "idle")
  /\ (pull.pc # "idle") ~> (pull.pc = "idle")

C12_Witness ==
  /\ ev.op = "pullDone" /\ ~ev.ok /\ ev.toast = "error"
  /\ ~isSyncing /\ ~InFlight

\* C13: a pull downloads every shard file when the lastSyncTime it read is
\* null, else the files modified strictly after it; a pull that selects none
\* downloads nothing, changes no local task, in the list or in the tasks
\* table, and reports 'no new data', not an error.
Newer(last) ==
  {m \in Months : remote[m].exists /\ (last # NullTime => remote[m].lastmod > last)}

C13_PullSelectsNewer ==
  [][/\ (pull.pc = "list" /\ pull'.pc = "download")
          => pull'.files = Newer(pull.lastSyncTime)
     /\ (pull.pc = "list" /\ pull'.pc = "persist")
          => /\ Newer(pull.lastSyncTime) = {}
             /\ ev'.toast = "info"
     /\ (pull.pc # "idle" /\ Newer(pull.lastSyncTime) = {})
          => /\ pull'.pc # "download"
             /\ tasks' = tasks
             /\ dbTasks' = dbTasks]_vars

\* C14: when the download of one selected shard fails, in whatever way, every
\* other selected shard that was downloaded is still replaced locally and the
\* pull does not fail (unless the tasks table itself throws).
StorageThrows == ~ev'.ok /\ ev'.to = NoMonth

C14_FailedShardSkipped ==
  [][(pull.pc = "apply" /\ pull'.pc # "apply" /\ ~StorageThrows) =>
       \A a \in pull.files, b \in pull.files :
         (pull.answers[a] = "ok" /\ pull.answers[b] # "ok")
           => /\ ev'.ok
              /\ RemoteTasks(a) \subseteq tasks'
              /\ RemoteTasks(a) \subseteq dbTasks']_vars

\* C15: a pull overwrites the templates, stored and in memory, with those of
\* the remote config.json when it holds any, and leaves them as they are when
\* config.json holds none.
C15_MissingConfigKept ==
  [][(pull.pc = "config" /\ pull'.pc = "list" /\ remoteConfig.exists) =>
       IF remoteConfig.hasTemplates
       THEN templates' = remoteConfig.templates /\ dbTemplates' = remoteConfig.templates
       ELSE templates' = templates /\ dbTemplates' = dbTemplates]_vars

\* C16: when a pull fails while it replaces the downloaded shards, every
\* month of the tasks table holds either the tasks it held before or the
\* tasks of the downloaded shard, never a part of either.
C16_ShardReplacedWhole ==
  [][(pull.pc = "apply" /\ pull'.pc = "idle" /\ ~ev'.ok) =>
       \A m \in Months : \/ InMonth(dbTasks', m) = InMonth(dbTasks, m)
                         \/ InMonth(dbTasks', m) = RemoteTasks(m)]_vars

\* C17: while webdavConfig is null, a push or a pull that is asked for is
\* refused with an error: no request is made, and isSyncing, lastSyncTime,
\* dirtyMonths, the tasks and what is stored stay as they are.
C17_NoConfigRefused ==
  [][(webdavConfig = NoCfg /\ ev'.op \in {"syncToWebDAV", "syncFromWebDAV"}) =>
       /\ ~ev'.ok /\ ev'.toast = "error"
       /\ push' = push /\ pull' = pull
       /\ UNCHANGED <<isSyncing, lastSyncTime, dirtyMonths, tasks, dbTasks, dbSync,
                      remote, remoteConfig, dirs>>]_vars

C17_Witness ==
  /\ webdavConfig = NoCfg
  /\ ev.op = "syncFromWebDAV" /\ ~ev.ok
  /\ tasks # {} /\ dirtyMonths # NoDirty
  /\ remote["2024-03"].exists

\* C18: when the database layer fails during addTask, updateTask, deleteTask,
\* moveTask or batchUpdateTaskStatus, the caller of the handler receives the
\* storage error itself.
C18_StorageErrorReachesCaller ==
  [][(/\ ev'.op \in {"addTask", "updateTask", "deleteTask", "moveTask",
                     "batchUpdateTaskStatus"}
      /\ ~ev'.ok)
       => ev'.caller = StorageError]_vars

\* the notifications a step shows
Toasts(e) == IF e.toast = "none" THEN 0 ELSE 1

\* C19: a push or a pull, refused or carried out, has shown exactly one
\* notification when it ends.
C19_OneNotification ==
  [][/\ (pull.pc # "idle" /\ pull'.pc = "idle") => pull.toasts + Toasts(ev') = 1
     /\ (push.pc # "idle" /\ push'.pc = "idle") => Toasts(ev') = 1
     /\ (ev'.op \in {"syncToWebDAV", "syncFromWebDAV"} /\ ~ev'.ok)
          => Toasts(ev') = 1]_vars

\* C20: a push that succeeds leaves /align and /align/data existing on the
\* remote, and no file is on the remote while its directory is absent.
C20_PushCreatesDirectories ==
  [][/\ PushSucceeds => Directories \subseteq dirs'
     /\ ((\E m \in Months : remote'[m].exists) \/ remoteConfig'.exists)
          => Directories \subseteq dirs']_vars

\* C10: a push that fails leaves lastSyncTime and dirtyMonths, in memory and
\* stored, as they were, and reports one failure.
C10_FailedPushChangesNothing ==
  [][/\ PushBegins => UNCHANGED <<lastSyncTime, dirtyMonths, dbSync>>
     /\ (PushFails \/ PushRefused)
          => /\ UNCHANGED <<lastSyncTime, dirtyMonths, dbSync>>
             /\ ev'.toast = "error"]_vars

C10_Witness ==
  /\ ev.op = "pushDone" /\ ~ev.ok /\ ev.toast = "error"
  /\ \E m \in Months : IsDirty(dirtyMonths, m)

\* C21: a 'get' of a file that does not exist is answered 404, whichever
\* implementation of the endpoint serves it.
C21_GetAbsentNotFound ==
  [][(ev'.op = "get" /\ ~remote[ev'.from].exists) =>
       /\ ev'.status = 404
       /\ ~ev'.ok]_vars

\* C22: dirtyMonths holds each month at most once, whatever task writes
\* have been made.
C22_DirtyMonthsIsSet == \A m \in Months : dirtyMonths[m] <= 1

\* C23: writing the task set as the remote JSON and reading it back yields
\* the same tasks, their time fields of the same type as before.
C23_RoundTrip == Parse(Stringify(tasks)) = tasks

\* C24: a pull advances lastSyncTime, in memory and in the stored state, only
\* in its last step, after the selected shards were replaced or skipped; every
\* other step of a pull, and a last step that fails, leaves both as they were.
C24_LastSyncAfterShards ==
  [][pull' # pull =>
       IF pull.pc = "persist" /\ ev'.ok
       THEN /\ lastSyncTime' = clock'
            /\ dbSync'.lastSyncTime = clock'
       ELSE /\ lastSyncTime' = lastSyncTime
            /\ dbSync'.lastSyncTime = dbSync.lastSyncTime]_vars

C24_Witness ==
  /\ ev.op = "pullDone" /\ ~ev.ok
  /\ lastSyncTime # NullTime
  /\ lastSyncTime < clock
  /\ \E m \in Months : remote[m].exists /\ remote[m].lastmod > lastSyncTime

\* C25: saving the WebDAV configuration leaves lastSyncTime and the dirty
\* months, in memory and in the stored state, as they were.
C25_ConfigSaveKeepsSyncState ==
  [][(cfgOp.pc = "write" /\ cfgOp'.pc = "idle" /\ ev'.ok) =>
       /\ lastSyncTime' = lastSyncTime
       /\ dirtyMonths' = dirtyMonths
       /\ dbSync'.lastSyncTime = dbSync.lastSyncTime
       /\ dbSync'.dirtyMonths = dbSync.dirtyMonths]_vars

\* C26: when a pull ends, every month that was dirty and that the pull did
\* not replace is still dirty, in memory and in the stored state.
C26_PullKeepsOtherDirty ==
  [][(pull.pc = "persist" /\ pull'.pc = "idle" /\ ev'.ok) =>
       \A m \in Months :
         (IsDirty(dirtyMonths, m) /\ m \notin pull.files)
           => /\ IsDirty(dirtyMonths', m)
              /\ IsDirty(dbSync'.dirtyMonths, m)]_vars

\* C27: a task added while a pull is in flight, in a month that has no shard
\* on the remote, is kept by every step of that pull, in memory and in the
\* tasks table.
C27_MutationDuringPullKept ==
  [][(pull' # pull /\ pull.pc # "idle") =>
       \A t \in tasks \ pull.tasks :
         ~remote[MonthOf(t)].exists
           => /\ t \in tasks'
              /\ t \in dbTasks => t \in dbTasks']_vars

\* C28: isSyncing is true exactly when a push or a pull has started and has
\* not settled.
C28_IsSyncingAccurate == isSyncing <=> InFlight

\* a task set as the claim compares it: ids, start months and status
Compared(ts) == {[id |-> t.id, month |-> t.month, status |-> t.status] : t \in ts}

\* C29: while no handler is in flight, the task list in memory and the tasks
\* table hold the same tasks.
C29_MemoryMatchesTable ==
  (Quiet /\ ~InFlight /\ cfgOp.pc = "idle") => Compared(tasks) = Compared(dbTasks)

\* C30: once the configuration save and every push and pull have settled,
\* the stored state holds the configuration that is in memory.
C30_SavedConfigKept ==
  (~InFlight /\ cfgOp.pc = "idle" /\ webdavConfig # NoCfg) => dbSync.cfg = webdavConfig

====
